---- MODULE Spec2Model ----
(***************************************************************************)
(* A model of the DAO governance and proposal execution code of anya-core: *)
(*   src/src/dao/governance.py, proposal.py, executor.py,                  *)
(*   membership_management.py and the broadcast path of                    *)
(*   src/src/network/bitcoin_client.py.                                    *)
(*                                                                         *)
(* The governance ledger (Storj) holds one JSON document per proposal and  *)
(* one vote list per proposal.  execute_proposal works on a proposal       *)
(* dictionary in memory; several callers may hold the same dictionary.     *)
(*                                                                         *)
(* Beside the ledger the module models the helpers the governance code     *)
(* relies on, each under a specification of its own: the proposal payload  *)
(* codec, the scan of the chain for proposals                              *)
(* (_get_proposals_from_bitcoin), the transaction builder of               *)
(* src/src/wallet/transaction.py and the allocation of a payment by        *)
(* System.calculate_allocations of src/main_system.py.                     *)
(***************************************************************************)
EXTENDS Integers, Sequences, FiniteSets, TLC

\* ------------------------------------------------------------------ bounds
MaxProposals == 1       \* proposals submit_proposal may create
MaxVotes == 2           \* vote transactions a network accepts per proposal
MaxThreads == 2         \* concurrent callers
MaxBroadcasts == 2      \* execution transactions a network accepts

\* ------------------------------------------------------------------ values
None == <<>>
Some(x) == <<x>>
IsNone(v) == v = <<>>
Range(s) == {s[i] : i \in DOMAIN s}

Addresses == {"A", "B", "N"}
Threads == 1..MaxThreads
Times == {1, 2}
OptTimes == {None} \cup {Some(t) : t \in Times}
ProposalIds == 1..MaxProposals
LongTitle == "TTTTTTTTTTTTTTTTTTTTTTTTTTTTTTTTTTTTTTTTTTTTTTTTTTTTTTTTTTTTTTTTTTTTTTTTTTTTTTTTTTTTTTTTTTTTTTTTTTTT"
Titles == {"", "T", LongTitle}
Descriptions == {"", "D"}
OptionLists == {<<>>, <<"Yes">>, <<"Yes", "No">>, <<"Yes", "Yes">>}
VoteOptions == {"Yes", "No", "Maybe"}
\* the weight each address votes with (its balance at the snapshot)
Weight == [a \in Addresses |-> IF a = "A" THEN 10 ELSE 5]
Chains == {"bitcoin", "rsk"}
ExecChains == {"bitcoin", "rsk", "other"}
ProposalTypes == {"send_bitcoin", "call_contract_function", "other"}
Statuses == {"draft", "active", "approved", "rejected", "expired",
             "executing", "executed", "failed"}

\* anya_core.constants.ANYA_TOKEN_CONTRACT_ADDRESS: the on-chain token is in use
ANYA_TOKEN_CONTRACT_ADDRESS == "0xANYA"

VARIABLES
    rskBalance,     \* rsk_client.get_token_balance, per address
    nextId,         \* generate_unique_proposal_id's counter
    proposals,      \* Storj: proposals/{id}.json
    votes,          \* Storj: votes/{id}.json
    announced,      \* ids of the proposals whose transaction a network accepted
    voteChain,      \* vote transactions accepted by a network, in chain order
    proposalDict,   \* the dictionary handed to execute_proposal
    sent,           \* execution transactions accepted by a network
    calls,          \* per thread: the call in progress
    res,            \* how the call that ended last ended
    codecProposal,  \* the proposal handed to encode_proposal_data
    encoded,        \* what encode_proposal_data returned or raised
    payload,        \* the bytes handed to decode_proposal_data
    decoded,        \* what decode_proposal_data returned or raised
    opReturns,      \* the OP_RETURN transactions of the chain, in scan order
    scanIndex,      \* _get_proposals_from_bitcoin: the transaction the loop is at
    scanned,        \* _get_proposals_from_bitcoin: its list proposals
    scanLog,        \* the txids of the error lines it printed
    scanReturn,     \* what it returned
    txInputs,       \* create_transaction: inputs, the UTXOs to be spent
    txOutputs,      \* create_transaction: outputs
    feeRate,        \* create_transaction: fee_rate, None when not given
    estimatedFee,   \* what bitcoin_client.estimate_fee() answers
    builtTx,        \* what create_transaction returned or raised
    txSent,         \* the transactions broadcast_transaction handed to the network
    optimal_payment,        \* calculate_allocations: the amount to allocate
    internal_metrics,       \* calculate_allocations: internal_metrics
    dao_financial_reports,  \* calculate_allocations: dao_financial_reports
    allocations,    \* what calculate_allocations returned or raised
    unspent,        \* the node's answer to listunspent for the DAO's address
    rskWei,         \* the RSK node's answer to eth.get_balance for the DAO
    mempool,        \* the transactions the Bitcoin network holds
    chainCall,      \* the client call that ended last and what it gave
    signJobs,       \* per signer: the sign_transaction call it is in
    sealed,         \* the encryption call made: its arguments, salt and result
    opened,         \* the decryption call made: its arguments, salt and result
    payments,       \* per spender: the payment it is making
    handed          \* the transactions handed to broadcast_transaction, in order

govVars == <<rskBalance, nextId, proposals, votes, announced, voteChain,
             proposalDict, sent, calls, res>>
codecVars == <<codecProposal, encoded, payload, decoded>>
\* the state of the helpers that the governance operations never write
scanVars == <<opReturns, scanIndex, scanned, scanLog, scanReturn>>
builderVars == <<txInputs, txOutputs, feeRate, estimatedFee, builtTx, txSent>>
allocVars == <<optimal_payment, internal_metrics, dao_financial_reports, allocations>>
chainVars == <<unspent, rskWei, mempool, chainCall>>
signVars == <<signJobs>>
cryptoVars == <<sealed, opened>>
walletVars == <<payments, handed>>
pureVars == <<codecVars, scanVars, builderVars, allocVars, chainVars, signVars,
              cryptoVars, walletVars>>
vars == <<govVars, pureVars>>

\* --------------------------------------------- membership_management.py
\* is_member(address, minimum_balance=None): a positive ANYA token balance on
\* RSK; the Taproot branch is commented out in the source and falls through
\* to False.
is_member(address, minimum_balance) ==
    IF ANYA_TOKEN_CONTRACT_ADDRESS # "" /\ ~IsNone(minimum_balance)
           /\ rskBalance[address] < minimum_balance[1] THEN FALSE
    ELSE IF ANYA_TOKEN_CONTRACT_ADDRESS # "" /\ rskBalance[address] > 0 THEN TRUE
    ELSE FALSE

\* ------------------------------------------------------------ proposal.py
Raise(error, msg) == [ok |-> FALSE, error |-> error, msg |-> msg]

\* create_proposal's test: end_time is not None and end_time <= start_time
end_time_not_after(start_time, end_time) ==
    ~IsNone(end_time) /\ end_time[1] <= start_time

\* create_proposal.  The caller (governance.py:95) passes chain as a seventh
\* argument and vote_on_proposal / execute_proposal read proposal['chain']:
\* the record keeps it.  now is int(time.time()); id is the value of
\* generate_unique_proposal_id().
create_proposal(id, proposer, title, description, options, start_time, end_time, chain, now) ==
    LET start == IF IsNone(start_time) THEN now ELSE start_time[1] IN
    IF title = "" \/ description = "" \/ options = <<>>
    THEN Raise("ValueError", "Title, description, and options are required")
    ELSE IF Len(options) < 2
    THEN Raise("ValueError", "At least two voting options are required")
    ELSE IF end_time_not_after(start, end_time)
    THEN Raise("ValueError", "End time must be after start time")
    ELSE [ok |-> TRUE,
          proposal |-> [id |-> id, proposer |-> proposer, title |-> title,
                        description |-> description, options |-> options,
                        start_time |-> start, end_time |-> end_time,
                        chain |-> chain, status |-> "active"]]

required_fields == {"id", "proposer", "title", "description", "options",
                    "start_time"}

is_proposal_valid(proposal) ==
    IF ~(required_fields \subseteq DOMAIN proposal) THEN FALSE
    ELSE IF Len(proposal.options) < 2 THEN FALSE
    ELSE TRUE

\* --------------------------------------------------- utils/helpers.py codec
\* governance.py calls helpers.encode_proposal_data (line 101) and
\* helpers.decode_proposal_data (line 142); helpers.py does not hold them.
\* They are modelled from the payload format of the specification:
\*   [version:1][tag:1][id:var][proposer:var][len+title][len+description]
\*   [option_count:1][options...][start_time:8][end_time:8], big-endian.
\* A var field is a length byte and that many bytes.  The format has no byte
\* for the status and none for "no end_time": decode gives the status of a new
\* proposal, 'active', and an end_time of eight zero bytes stands for None.
CODEC_VERSION == 1
MAX_OP_RETURN_SIZE == 80

\* UTF-8 of the strings of the model
Utf8 ==
    ("" :> <<>>) @@ ("T" :> <<84>>) @@ ("D" :> <<68>>) @@ ("A" :> <<65>>)
    @@ ("B" :> <<66>>) @@ ("N" :> <<78>>) @@ ("Yes" :> <<89, 101, 115>>)
    @@ ("No" :> <<78, 111>>) @@ ("Maybe" :> <<77, 97, 121, 98, 101>>)
    @@ (LongTitle :> [i \in 1..100 |-> 84])

utf8_encode(s) == Utf8[s]

utf8_decode(bytes) ==
    IF \E s \in DOMAIN Utf8 : Utf8[s] = bytes
    THEN Some(CHOOSE s \in DOMAIN Utf8 : Utf8[s] = bytes)
    ELSE None

\* big-endian integer of width bytes
RECURSIVE to_bytes(_, _)
to_bytes(n, width) ==
    IF width = 0 THEN <<>>
    ELSE Append(to_bytes(n \div 256, width - 1), n % 256)

RECURSIVE from_bytes(_)
from_bytes(bytes) ==
    IF bytes = <<>> THEN 0
    ELSE 256 * from_bytes(SubSeq(bytes, 1, Len(bytes) - 1)) + bytes[Len(bytes)]

\* mutant of byte_width: every id is written in one byte
byte_width_one(n) == 1

\* the smallest width that holds n
RECURSIVE byte_width(_)
byte_width(n) == IF n < 256 THEN 1 ELSE 1 + byte_width(n \div 256)

with_length(bytes) == <<Len(bytes) % 256>> \o bytes

chain_tag(chain) == IF chain = "bitcoin" THEN 0 ELSE 1

RECURSIVE encode_options(_)
encode_options(options) ==
    IF options = <<>> THEN <<>>
    ELSE with_length(utf8_encode(Head(options))) \o encode_options(Tail(options))

\* the record of a proposal, whatever its size
serialize_proposal(proposal) ==
    <<CODEC_VERSION, chain_tag(proposal.chain)>>
    \o with_length(to_bytes(proposal.id, byte_width(proposal.id)))
    \o with_length(utf8_encode(proposal.proposer))
    \o with_length(utf8_encode(proposal.title))
    \o with_length(utf8_encode(proposal.description))
    \o <<Len(proposal.options)>>
    \o encode_options(proposal.options)
    \o to_bytes(proposal.start_time, 8)
    \o to_bytes(IF IsNone(proposal.end_time) THEN 0 ELSE proposal.end_time[1], 8)

\* mutant of the size test: the limit is never reached
payload_never_too_large(data) == FALSE

payload_too_large(data) == Len(data) > MAX_OP_RETURN_SIZE

encode_proposal_data(proposal) ==
    LET data == serialize_proposal(proposal) IN
    IF payload_too_large(data)
    THEN Raise("PayloadTooLargeError", "payload exceeds the OP_RETURN size")
    ELSE [ok |-> TRUE, data |-> data]

\* a var field at pos: its bytes and the position after it, None if the
\* length byte or the bytes it announces are beyond the end
read_field(bytes, pos) ==
    IF pos > Len(bytes) THEN None
    ELSE IF pos + bytes[pos] > Len(bytes) THEN None
    ELSE Some([bytes |-> SubSeq(bytes, pos + 1, pos + bytes[pos]),
               next |-> pos + 1 + bytes[pos]])

\* count options from pos on: the strings and the position after them
RECURSIVE read_options(_, _, _)
read_options(bytes, pos, count) ==
    IF count = 0 THEN Some([options |-> <<>>, next |-> pos])
    ELSE LET field == read_field(bytes, pos) IN
         IF IsNone(field) THEN None
         ELSE LET text == utf8_decode(field[1].bytes)
                  rest == read_options(bytes, field[1].next, count - 1) IN
              IF IsNone(text) \/ IsNone(rest) THEN None
              ELSE Some([options |-> <<text[1]>> \o rest[1].options,
                         next |-> rest[1].next])

DecodeError(msg) == Raise("DecodeError", msg)

\* mutant of the time test of decode: an end_time equal to start_time passes
decoded_end_before_start(start_time, end_time) ==
    end_time # 0 /\ end_time < start_time

decoded_end_not_after_start(start_time, end_time) ==
    end_time # 0 /\ end_time <= start_time

\* the tail of a payload from the option count on
decode_tail(bytes, pos, head) ==
    IF pos > Len(bytes) THEN DecodeError("truncated option count")
    ELSE IF bytes[pos] < 2 THEN DecodeError("fewer than two options")
    ELSE LET opts == read_options(bytes, pos + 1, bytes[pos]) IN
         IF IsNone(opts) THEN DecodeError("truncated options")
         ELSE IF Len(bytes) # opts[1].next + 15
         THEN DecodeError("truncated timestamps")
         ELSE LET start_time == from_bytes(SubSeq(bytes, opts[1].next, opts[1].next + 7))
                  end_time == from_bytes(SubSeq(bytes, opts[1].next + 8, opts[1].next + 15)) IN
              IF decoded_end_not_after_start(start_time, end_time)
              THEN DecodeError("end_time not after start_time")
              ELSE [ok |-> TRUE,
                    proposal |-> [id |-> head.id, proposer |-> head.proposer,
                                  title |-> head.title,
                                  description |-> head.description,
                                  options |-> opts[1].options,
                                  start_time |-> start_time,
                                  end_time |-> IF end_time = 0 THEN None
                                               ELSE Some(end_time),
                                  chain |-> head.chain, status |-> "active"]]

decode_proposal_data(bytes) ==
    IF Len(bytes) < 2 THEN DecodeError("truncated header")
    ELSE IF bytes[1] # CODEC_VERSION THEN DecodeError("unknown version")
    ELSE IF bytes[2] \notin {0, 1} THEN DecodeError("unknown tag")
    ELSE LET id == read_field(bytes, 3) IN
         IF IsNone(id) \/ id[1].bytes = <<>> THEN DecodeError("truncated id")
         ELSE LET proposer == read_field(bytes, id[1].next) IN
         IF IsNone(proposer) THEN DecodeError("truncated proposer")
         ELSE LET title == read_field(bytes, proposer[1].next) IN
         IF IsNone(title) THEN DecodeError("truncated title")
         ELSE LET description == read_field(bytes, title[1].next) IN
         IF IsNone(description) THEN DecodeError("truncated description")
         ELSE LET texts == [f \in {"proposer", "title", "description"} |->
                               utf8_decode(IF f = "proposer" THEN proposer[1].bytes
                                           ELSE IF f = "title" THEN title[1].bytes
                                           ELSE description[1].bytes)] IN
         IF \E f \in DOMAIN texts : IsNone(texts[f]) THEN DecodeError("invalid UTF-8")
         ELSE decode_tail(bytes, description[1].next,
                          [id |-> from_bytes(id[1].bytes),
                           proposer |-> texts["proposer"][1],
                           title |-> texts["title"][1],
                           description |-> texts["description"][1],
                           chain |-> IF bytes[2] = 0 THEN "bitcoin" ELSE "rsk"])

\* ---------------------------------------------------------- governance.py
\* Storj access.  readOk is the outcome of storj_client.download_json: the
\* getters catch its exception and return None / [].
store_proposal(proposal, txid) ==
    proposals' = (proposal.id :> proposal) @@ proposals

get_proposal_by_id(proposal_id, readOk) ==
    IF readOk /\ proposal_id \in DOMAIN proposals
    THEN Some(proposals[proposal_id]) ELSE None

get_votes_for_proposal(proposal_id, readOk) ==
    IF readOk THEN votes[proposal_id] ELSE <<>>

Idle == [op |-> "none", pc |-> "idle"]
\* how a call ended: error is the exception's class ("" when it returned),
\* broadcasts the number of times the call handed a transaction to a network
\* and value what it returned (None when it returned nothing)
Returned(op) == [op |-> op, error |-> "", msg |-> "", broadcasts |-> 0, value |-> None]
Raised(op, error, msg) == [op |-> op, error |-> error, msg |-> msg, broadcasts |-> 0, value |-> None]
Ended(r, broadcasts, value) == [r EXCEPT !.broadcasts = broadcasts, !.value = value]

\* mutant of update_proposal_status: the uploaded document keeps the new
\* status but loses its end_time
update_proposal_status_drops_end_time(proposal_id, new_status, readOk) ==
    LET proposal == get_proposal_by_id(proposal_id, readOk) IN
    /\ IF ~IsNone(proposal)
       THEN proposals' = [proposals EXCEPT ![proposal_id] =
                [@ EXCEPT !.status = new_status, !.end_time = None]]
       ELSE UNCHANGED proposals
    /\ UNCHANGED <<pureVars, rskBalance, nextId, votes, announced,
                   voteChain, proposalDict, sent, calls, res>>

\* update_proposal_status(proposal_id, new_status)
update_proposal_status(proposal_id, new_status, readOk) ==
    LET proposal == get_proposal_by_id(proposal_id, readOk) IN
    /\ IF ~IsNone(proposal)
       THEN proposals' = [proposals EXCEPT ![proposal_id].status = new_status]
       ELSE UNCHANGED proposals
    /\ UNCHANGED <<pureVars, rskBalance, nextId, votes, announced,
                   voteChain, proposalDict, sent, calls, res>>

\* mutant of the test of the txid: the proposal is stored whatever the
\* broadcast returned
txid_unchecked(txid) == TRUE

\* submit_proposal's test before it stores: if txid
txid_returned(txid) == ~IsNone(txid)

\* mutant of submit_proposal: the error of encode_proposal_data is swallowed
\* and the proposal is broadcast and stored all the same
submit_proposal_ignores_encode_error(proposer, title, description, options, start_time, end_time, chain, now, accepted) ==
    LET made == create_proposal(nextId, proposer, title, description, options,
                                start_time, end_time, chain, now)
        txid == IF accepted THEN Some(nextId) ELSE None
        raise(error, msg) ==
            /\ res' = Raised("submit_proposal", error, msg)
            /\ UNCHANGED <<proposals, announced>> IN
    /\ nextId <= MaxProposals
    /\ IF ~is_member(proposer, None)
       THEN /\ raise("ValueError", "Only DAO members can submit proposals")
            /\ UNCHANGED nextId
       ELSE IF ~made.ok
       THEN /\ raise(made.error, made.msg)
            /\ UNCHANGED nextId
       ELSE /\ nextId' = nextId + 1
            /\ IF ~is_proposal_valid(made.proposal)
               THEN raise("ValueError", "Invalid proposal")
               ELSE LET op_return_data == encode_proposal_data(made.proposal) IN
                    IF FALSE
                    THEN raise(op_return_data.error, op_return_data.msg)
                    ELSE /\ res' = Ended(Returned("submit_proposal"), 1, txid)
                         /\ announced' = IF accepted
                                          THEN announced \cup {made.proposal.id}
                                          ELSE announced
                         /\ IF txid_returned(txid)
                            THEN store_proposal(made.proposal, txid)
                            ELSE UNCHANGED proposals
    /\ UNCHANGED <<pureVars, rskBalance, votes, voteChain, proposalDict, sent, calls>>

\* submit_proposal(proposer, title, description, options, start_time,
\* end_time, chain).  accepted is the outcome of the network call inside
\* bitcoin_client.broadcast_transaction, which returns None when it failed.
submit_proposal(proposer, title, description, options, start_time, end_time, chain, now, accepted) ==
    LET made == create_proposal(nextId, proposer, title, description, options,
                                start_time, end_time, chain, now)
        txid == IF accepted THEN Some(nextId) ELSE None
        raise(error, msg) ==
            /\ res' = Raised("submit_proposal", error, msg)
            /\ UNCHANGED <<proposals, announced>> IN
    /\ nextId <= MaxProposals
    /\ IF ~is_member(proposer, None)
       THEN /\ raise("ValueError", "Only DAO members can submit proposals")
            /\ UNCHANGED nextId
       ELSE IF ~made.ok
       THEN /\ raise(made.error, made.msg)
            /\ UNCHANGED nextId
       ELSE /\ nextId' = nextId + 1
            /\ IF ~is_proposal_valid(made.proposal)
               THEN raise("ValueError", "Invalid proposal")
               ELSE LET op_return_data == encode_proposal_data(made.proposal) IN
                    IF ~op_return_data.ok
                    THEN raise(op_return_data.error, op_return_data.msg)
                    ELSE /\ res' = Ended(Returned("submit_proposal"), 1, txid)
                         /\ announced' = IF accepted
                                          THEN announced \cup {made.proposal.id}
                                          ELSE announced
                         /\ IF txid_returned(txid)
                            THEN store_proposal(made.proposal, txid)
                            ELSE UNCHANGED proposals
    /\ UNCHANGED <<pureVars, rskBalance, votes, voteChain, proposalDict, sent, calls>>

\* The rest of vote_on_proposal after its checks: the source file ends inside
\* the bitcoin branch (governance.py:214).  Following submit_proposal, the
\* vote transaction is broadcast and, when the network returned a txid, the
\* vote is handed to record_vote; the txid is the vote's position among the
\* proposal's vote transactions.
cast_vote(t, proposal, vote_option, voter_address, amount, accepted) ==
    LET id == proposal.id
        txid == Len(voteChain[id]) + 1
        vote == [voter_address |-> voter_address, option |-> vote_option,
                 amount |-> amount, txid |-> txid] IN
    IF accepted
    THEN /\ Len(voteChain[id]) < MaxVotes
         /\ voteChain' = [voteChain EXCEPT ![id] = Append(@, vote)]
         /\ calls' = [calls EXCEPT ![t] =
                [op |-> "vote", pc |-> "record_vote", broadcasts |-> 1, id |-> id,
                 vote |-> vote]]
         /\ UNCHANGED res
    ELSE /\ res' = Ended(Returned("vote_on_proposal"), 1, None)
         /\ UNCHANGED <<voteChain, calls>>

\* mutant of the option test: any option passes once the proposal has options
proposal_has_options(vote_option, proposal) ==
    proposal.options # <<>>

\* vote_on_proposal's test: vote_option in proposal['options']
option_in_proposal(vote_option, proposal) ==
    vote_option \in Range(proposal.options)

\* mutant of the proposal test: any stored proposal can be voted on
proposal_missing(proposal) == IsNone(proposal)

\* vote_on_proposal's test: not proposal or proposal['status'] != 'active'
invalid_or_inactive(proposal) ==
    IsNone(proposal) \/ proposal[1].status # "active"

\* vote_on_proposal(proposal_id, vote_option, voter_address, amount)
vote_on_proposal(t, proposal_id, vote_option, voter_address, amount, readOk, accepted) ==
    LET proposal == get_proposal_by_id(proposal_id, readOk)
        raise(error, msg) ==
            /\ res' = Raised("vote_on_proposal", error, msg)
            /\ UNCHANGED <<voteChain, calls>> IN
    /\ calls[t] = Idle
    /\ IF ~is_member(voter_address, None)
       THEN raise("ValueError", "Only DAO members can vote")
       ELSE IF invalid_or_inactive(proposal)
       THEN raise("ValueError", "Invalid or inactive proposal")
       ELSE IF ~option_in_proposal(vote_option, proposal[1])
       THEN raise("ValueError", "Invalid vote option")
       ELSE cast_vote(t, proposal[1], vote_option, voter_address, amount, accepted)
    /\ UNCHANGED <<pureVars, rskBalance, nextId, proposals, votes,
                   announced, proposalDict, sent>>

\* record_vote(proposal_id, voter_address, vote_option, amount, txid), first
\* half: votes = get_votes_for_proposal(proposal_id); votes.append(vote)
record_vote_read(t, readOk) ==
    /\ calls[t].pc = "record_vote"
    /\ calls' = [calls EXCEPT ![t] =
           [op |-> "vote", pc |-> "upload", broadcasts |-> calls[t].broadcasts,
            id |-> calls[t].id,
            votes |-> Append(get_votes_for_proposal(calls[t].id, readOk),
                             calls[t].vote)]]
    /\ UNCHANGED <<pureVars, rskBalance, nextId, proposals, votes, announced, voteChain,
                   proposalDict, sent, res>>

\* record_vote, second half: storj_client.upload_json(votes/{id}.json, votes)
record_vote_upload(t) ==
    /\ calls[t].pc = "upload"
    /\ votes' = [votes EXCEPT ![calls[t].id] = calls[t].votes]
    /\ calls' = [calls EXCEPT ![t] = Idle]
    /\ res' = Ended(Returned("vote_on_proposal"), calls[t].broadcasts, None)
    /\ UNCHANGED <<pureVars, rskBalance, nextId, proposals, announced, voteChain,
                   proposalDict, sent>>

\* ------------------------------------------------------------ executor.py
\* an execute call in progress: where it is and how many transactions it
\* has handed to a network
ExecCall(pc, broadcasts) == [op |-> "execute", pc |-> pc, broadcasts |-> broadcasts]

\* mutants of the status test: one lets an executed proposal through again,
\* one turns away only the rejected and expired proposals
status_approved_or_executed(proposal) ==
    proposal.status \in {"approved", "executed"}
status_not_rejected(proposal) ==
    proposal.status \notin {"rejected", "expired"}

\* execute_proposal's test: proposal['status'] != 'approved' raises
status_is_approved(proposal) ==
    proposal.status = "approved"

\* execute_proposal(proposal), up to the first network call of
\* execute_on_bitcoin / execute_on_rsk.  caller is the address on whose behalf
\* the call is made: the function takes no such argument and reads none.
execute_proposal(t, caller) ==
    LET return == res' = Returned("execute_proposal") /\ UNCHANGED calls
        raise(error, msg) ==
            res' = Raised("execute_proposal", error, msg) /\ UNCHANGED calls
        continue(pc) == calls' = [calls EXCEPT ![t] = ExecCall(pc, 0)] /\ UNCHANGED res IN
    /\ calls[t] = Idle
    /\ IF ~status_is_approved(proposalDict)
       THEN raise("ValueError", "Only approved proposals can be executed")
       ELSE IF proposalDict.chain = "bitcoin"
       THEN IF proposalDict.type = "send_bitcoin"
            THEN continue("btc_broadcast")
            ELSE return
       ELSE IF proposalDict.chain = "rsk"
       THEN IF proposalDict.type = "call_contract_function"
            THEN continue("rsk_send")
            ELSE return
       ELSE raise("ValueError", "Invalid chain specified in proposal")
    /\ UNCHANGED <<pureVars, rskBalance, nextId, proposals, votes, announced, voteChain,
                   proposalDict, sent>>

\* mutant of execute_on_bitcoin_broadcast: a broadcast that failed is tried a
\* second time before the call gives up
execute_on_bitcoin_broadcast_retries(t, accepted) ==
    /\ calls[t].pc = "btc_broadcast"
    /\ IF accepted
       THEN /\ sent < MaxBroadcasts
            /\ sent' = sent + 1
            /\ calls' = [calls EXCEPT ![t] = ExecCall("btc_sent", calls[t].broadcasts + 1)]
            /\ UNCHANGED res
       ELSE /\ calls' = [calls EXCEPT ![t] = Idle]
            /\ res' = Ended(Returned("execute_proposal"), calls[t].broadcasts + 2, None)
            /\ UNCHANGED sent
    /\ UNCHANGED <<pureVars, rskBalance, nextId, proposals, votes, announced, voteChain,
                   proposalDict>>

\* execute_on_bitcoin: txid = bitcoin_client.broadcast_transaction(...); the
\* else branch of "if txid" is empty in the source.
execute_on_bitcoin_broadcast(t, accepted) ==
    /\ calls[t].pc = "btc_broadcast"
    /\ IF accepted
       THEN /\ sent < MaxBroadcasts
            /\ sent' = sent + 1
            /\ calls' = [calls EXCEPT ![t] = ExecCall("btc_sent", calls[t].broadcasts + 1)]
            /\ UNCHANGED res
       ELSE /\ calls' = [calls EXCEPT ![t] = Idle]
            /\ res' = Ended(Returned("execute_proposal"), calls[t].broadcasts + 1, None)
            /\ UNCHANGED sent
    /\ UNCHANGED <<pureVars, rskBalance, nextId, proposals, votes, announced, voteChain,
                   proposalDict>>

\* execute_on_bitcoin: if txid: proposal['status'] = 'executed'
execute_on_bitcoin_update(t) ==
    /\ calls[t].pc = "btc_sent"
    /\ proposalDict' = [proposalDict EXCEPT !.status = "executed"]
    /\ calls' = [calls EXCEPT ![t] = Idle]
    /\ res' = Ended(Returned("execute_proposal"), calls[t].broadcasts, None)
    /\ UNCHANGED <<pureVars, rskBalance, nextId, proposals, votes, announced, voteChain,
                   sent>>

\* execute_on_rsk: tx_hash = w3.eth.send_raw_transaction(...); an exception of
\* the client is not caught.
execute_on_rsk_send(t, accepted) ==
    /\ calls[t].pc = "rsk_send"
    /\ IF accepted
       THEN /\ sent < MaxBroadcasts
            /\ sent' = sent + 1
            /\ calls' = [calls EXCEPT ![t] = ExecCall("rsk_wait", calls[t].broadcasts + 1)]
            /\ UNCHANGED res
       ELSE /\ calls' = [calls EXCEPT ![t] = Idle]
            /\ res' = Ended(Raised("execute_proposal", "Exception", "send_raw_transaction"),
                            calls[t].broadcasts + 1, None)
            /\ UNCHANGED sent
    /\ UNCHANGED <<pureVars, rskBalance, nextId, proposals, votes, announced, voteChain,
                   proposalDict>>

ReceiptOutcomes == {"status1", "status0", "timeout"}

\* execute_on_rsk: tx_receipt = w3.eth.wait_for_transaction_receipt(tx_hash);
\* the wait's timeout is not caught.
execute_on_rsk_receipt(t, receipt) ==
    /\ calls[t].pc = "rsk_wait"
    /\ IF receipt = "timeout"
       THEN /\ calls' = [calls EXCEPT ![t] = Idle]
            /\ res' = Ended(Raised("execute_proposal", "Exception",
                                   "wait_for_transaction_receipt"),
                            calls[t].broadcasts, None)
       ELSE /\ calls' = [calls EXCEPT ![t] =
                   [op |-> "execute", pc |-> "rsk_receipt",
                    broadcasts |-> calls[t].broadcasts, tx_receipt |-> receipt]]
            /\ UNCHANGED res
    /\ UNCHANGED <<pureVars, rskBalance, nextId, proposals, votes, announced, voteChain,
                   proposalDict, sent>>

\* mutant of the receipt test: any receipt counts as a success
receipt_arrived(tx_receipt) == TRUE

\* execute_on_rsk's test: tx_receipt['status'] == 1
receipt_successful(tx_receipt) == tx_receipt = "status1"

\* execute_on_rsk: status 'executed' when the receipt reports success, else
\* 'failed'
execute_on_rsk_update(t) ==
    /\ calls[t].pc = "rsk_receipt"
    /\ calls' = [calls EXCEPT ![t] = Idle]
    /\ proposalDict' = [proposalDict EXCEPT !.status =
           IF receipt_successful(calls[t].tx_receipt) THEN "executed" ELSE "failed"]
    /\ res' = Ended(Returned("execute_proposal"), calls[t].broadcasts, None)
    /\ UNCHANGED <<pureVars, rskBalance, nextId, proposals, votes, announced, voteChain,
                   sent>>

\* ------------------------------------------------- the governance ledger
NoDict == [id |-> 0, status |-> "none", chain |-> "none", type |-> "none"]

\* the governance state before any call
GovIdle ==
    /\ rskBalance = [a \in Addresses |-> IF a = "N" THEN 0 ELSE 1]
    /\ nextId = 1
    /\ proposals = <<>>
    /\ votes = [p \in ProposalIds |-> <<>>]
    /\ announced = {}
    /\ voteChain = [p \in ProposalIds |-> <<>>]
    /\ proposalDict = NoDict
    /\ sent = 0
    /\ calls = [t \in Threads |-> Idle]
    /\ res = Returned("none")

\* no codec call was made
CodecIdle ==
    /\ codecProposal = None
    /\ encoded = None
    /\ payload = None
    /\ decoded = None

\* no scan was started and the chain holds no OP_RETURN transaction
ScanIdle ==
    /\ opReturns = <<>>
    /\ scanIndex = 0
    /\ scanned = <<>>
    /\ scanLog = <<>>
    /\ scanReturn = None

\* no transaction was asked for
BuilderIdle ==
    /\ txInputs = <<>>
    /\ txOutputs = <<>>
    /\ feeRate = None
    /\ estimatedFee = 1
    /\ builtTx = None
    /\ txSent = <<>>

\* no allocation was asked for
AllocIdle ==
    /\ optimal_payment = None
    /\ internal_metrics = None
    /\ dao_financial_reports = None
    /\ allocations = None

\* no client call was made
ChainIdle ==
    /\ unspent = <<>>
    /\ rskWei = 0
    /\ mempool = {}
    /\ chainCall = None

\* the callers of sign_transaction and the state of one that is in no call
Signers == {"s1", "s2"}
NoJob == [pc |-> "idle", vin |-> <<>>, private_keys |-> <<>>, i |-> 0,
          sighash |-> None, log |-> <<>>]
SignIdle == signJobs = [s \in Signers |-> NoJob]

\* nothing was encrypted or decrypted
CryptoIdle == sealed = None /\ opened = None

\* the callers that pay from the wallet and the state of one that has not begun
Spenders == {"w1", "w2"}
NoPayment == [pc |-> "idle", utxos |-> <<>>, tx |-> None, txid |-> None]
WalletIdle == payments = [w \in Spenders |-> NoPayment] /\ handed = <<>>

\* no helper was called
PureIdle ==
    /\ CodecIdle /\ ScanIdle /\ BuilderIdle /\ AllocIdle /\ ChainIdle /\ SignIdle
    /\ CryptoIdle /\ WalletIdle

Init ==
    /\ rskBalance = [a \in Addresses |-> IF a = "N" THEN 0 ELSE 1]
    /\ nextId = 1
    /\ proposals = <<>>
    /\ votes = [p \in ProposalIds |-> <<>>]
    /\ announced = {}
    /\ voteChain = [p \in ProposalIds |-> <<>>]
    /\ proposalDict = NoDict
    /\ sent = 0
    /\ calls = [t \in Threads |-> Idle]
    /\ res = Returned("none")
    /\ PureIdle

SubmitProposal ==
    \E proposer \in Addresses, title \in Titles, description \in Descriptions,
       options \in OptionLists, start_time \in OptTimes, end_time \in OptTimes,
       chain \in Chains, accepted \in BOOLEAN :
      \E now \in IF IsNone(start_time) THEN Times ELSE {1} :
        submit_proposal(proposer, title, description, options, start_time,
                        end_time, chain, now, accepted)

UpdateProposalStatus ==
    \E proposal_id \in ProposalIds, new_status \in Statuses, readOk \in BOOLEAN :
        update_proposal_status(proposal_id, new_status, readOk)

Next ==
    \/ SubmitProposal
    \/ UpdateProposalStatus

Spec == Init /\ [][Next]_vars

\* ------------------------------------------------------------- voting
\* One proposal is put to the vote (vote_on_proposal and record_vote touch
\* only the documents of the proposal id they are given); it is submitted
\* with a fixed text and moved between the statuses that matter to
\* vote_on_proposal.
SubmitBallot ==
    \E accepted \in BOOLEAN :
        /\ nextId = 1
        /\ submit_proposal("A", "T", "D", <<"Yes", "No">>, None, None,
                           "bitcoin", 1, accepted)

UpdateBallotStatus ==
    \E proposal_id \in ProposalIds, new_status \in {"active", "approved"} :
        update_proposal_status(proposal_id, new_status, TRUE)

VoteOnProposal ==
    \E t \in Threads, proposal_id \in ProposalIds, vote_option \in VoteOptions,
       voter_address \in Addresses, readOk \in BOOLEAN, accepted \in BOOLEAN :
        vote_on_proposal(t, proposal_id, vote_option, voter_address,
                         Weight[voter_address], readOk, accepted)

RecordVoteRead == \E t \in Threads, readOk \in BOOLEAN : record_vote_read(t, readOk)

RecordVoteUpload == \E t \in Threads : record_vote_upload(t)

NextVote ==
    \/ SubmitBallot
    \/ UpdateBallotStatus
    \/ VoteOnProposal
    \/ RecordVoteRead
    \/ RecordVoteUpload

SpecVote == Init /\ [][NextVote]_vars

\* ------------------------------------------------------- the executor
\* execute_proposal receives a dictionary built by its caller: any status,
\* chain and type.
ExecDicts ==
    [id : {1}, proposer : {"A"}, title : {"T"}, description : {"D"},
     options : {<<"Yes", "No">>}, start_time : {1}, end_time : {None},
     status : Statuses, chain : ExecChains, type : ProposalTypes]

InitExec ==
    /\ rskBalance = [a \in Addresses |-> IF a = "N" THEN 0 ELSE 1]
    /\ nextId = 1
    /\ proposals = <<>>
    /\ votes = [p \in ProposalIds |-> <<>>]
    /\ announced = {}
    /\ voteChain = [p \in ProposalIds |-> <<>>]
    /\ proposalDict \in ExecDicts
    /\ sent = 0
    /\ calls = [t \in Threads |-> Idle]
    /\ res = Returned("none")
    /\ PureIdle

ExecuteProposal ==
    \E t \in Threads, caller \in Addresses : execute_proposal(t, caller)

ExecuteOnBitcoinBroadcast ==
    \E t \in Threads, accepted \in BOOLEAN : execute_on_bitcoin_broadcast(t, accepted)

ExecuteOnBitcoinUpdate == \E t \in Threads : execute_on_bitcoin_update(t)

ExecuteOnRskSend ==
    \E t \in Threads, accepted \in BOOLEAN : execute_on_rsk_send(t, accepted)

ExecuteOnRskReceipt ==
    \E t \in Threads, receipt \in ReceiptOutcomes : execute_on_rsk_receipt(t, receipt)

ExecuteOnRskUpdate == \E t \in Threads : execute_on_rsk_update(t)

NextExec ==
    \/ ExecuteProposal
    \/ ExecuteOnBitcoinBroadcast
    \/ ExecuteOnBitcoinUpdate
    \/ ExecuteOnRskSend
    \/ ExecuteOnRskReceipt
    \/ ExecuteOnRskUpdate

SpecExec == InitExec /\ [][NextExec]_vars

\* ================================================== claims on the executor
AllIdle == \A t \in Threads : calls[t] = Idle
ExecuteStarts == \E t \in Threads, caller \in Addresses : execute_proposal(t, caller)

\* C1: of the execute calls on one approved bitcoin proposal, however they
\* interleave, at most one has its transaction accepted by the network.
C1_AtMostOneChainAction == proposalDict.chain = "bitcoin" => sent <= 1

C3_NotApprovedIsRejected ==
    [][(proposalDict.status # "approved" /\ ExecuteStarts)
        => /\ res'.op = "execute_proposal"
           /\ res'.error # ""
           /\ UNCHANGED <<calls, sent, proposalDict>>]_vars

\* C3's case: a call on a proposal that is being executed was turned away.
C3_Witness ==
    /\ proposalDict.status = "executing"
    /\ res.op = "execute_proposal"
    /\ res.error = "ValueError"
    /\ sent = 0

\* C5: when an execute call on a bitcoin or rsk proposal has returned, the
\* status is 'executed' or 'failed', never still 'approved' or 'executing'.
C5_EndsExecutedOrFailed ==
    (/\ AllIdle
     /\ res.op = "execute_proposal"
     /\ res.error = ""
     /\ proposalDict.chain \in {"bitcoin", "rsk"})
        => proposalDict.status \in {"executed", "failed"}

\* C6: an execute call made by an address that is not a member fails, sends
\* nothing and changes nothing.
C6_NonMemberCannotExecute ==
    [][\A t \in Threads, caller \in Addresses :
          (~is_member(caller, None) /\ execute_proposal(t, caller))
              => /\ res'.op = "execute_proposal"
                 /\ res'.error # ""
                 /\ UNCHANGED <<calls, sent, proposalDict>>]_vars

\* ==================================================== claims on the ledger
\* the spec's state machine, in the code's status names (Passed is 'approved')
StatusEdges ==
    {<<"draft", "active">>, <<"active", "approved">>, <<"active", "rejected">>,
     <<"active", "expired">>, <<"approved", "executing">>,
     <<"executing", "executed">>, <<"executing", "failed">>}

\* C4: a proposal enters the ledger as 'draft' and its status changes only
\* along the edges of the state machine, so a terminal status never changes.
C4_StatusStateMachine ==
    [][\A id \in DOMAIN proposals' :
          IF id \in DOMAIN proposals
          THEN \/ proposals'[id].status = proposals[id].status
               \/ <<proposals[id].status, proposals'[id].status>> \in StatusEdges
          ELSE proposals'[id].status = "draft"]_vars

PairwiseDistinct(options) ==
    \A i, j \in DOMAIN options : i # j => options[i] # options[j]

\* C10: every stored proposal has at least two options, pairwise
\* distinct, and an end_time that is absent or later than start_time.
C10_StoredProposalWellFormed ==
    \A id \in DOMAIN proposals :
        /\ Len(proposals[id].options) >= 2
        /\ PairwiseDistinct(proposals[id].options)
        /\ \/ IsNone(proposals[id].end_time)
           \/ proposals[id].end_time[1] > proposals[id].start_time

\* ================================================== claims on the ballot
RECURSIVE SumAmounts(_)
SumAmounts(S) ==
    IF S = {} THEN 0
    ELSE LET v == CHOOSE x \in S : TRUE IN v.amount + SumAmounts(S \ {v})

\* The tally of the spec, which the repository does not hold: for each option
\* the sum of the weight of each voter's vote of greatest chain position.
Tally(vote_list, options) ==
    LET cast == Range(vote_list)
        superseded(v) == \E w \in cast : /\ w.voter_address = v.voter_address
                                          /\ w.txid > v.txid IN
    [o \in Range(options) |->
        SumAmounts({v \in cast : v.option = o /\ ~superseded(v)})]

RECURSIVE SumWeight(_)
SumWeight(S) ==
    IF S = {} THEN 0
    ELSE LET a == CHOOSE x \in S : TRUE IN Weight[a] + SumWeight(S \ {a})

\* the option of the voter's last vote transaction of the proposal, if any
LastChoice(id, voter) ==
    LET mine == {i \in DOMAIN voteChain[id] :
                    voteChain[id][i].voter_address = voter} IN
    IF mine = {} THEN None
    ELSE Some(voteChain[id][CHOOSE i \in mine : \A j \in mine : j <= i].option)

C9_InvalidOptionRejected ==
    [][\/ /\ res'.op = "vote_on_proposal"
          /\ res'.error = "ValueError"
          /\ UNCHANGED <<voteChain, votes, calls>>
       \/ ~\E id \in DOMAIN proposals :
            \E o \in VoteOptions \ Range(proposals[id].options) :
              \E t \in Threads, voter \in Addresses,
                 readOk \in BOOLEAN, accepted \in BOOLEAN :
                vote_on_proposal(t, id, o, voter, Weight[voter], readOk, accepted)]_vars

\* C9's case: a member voted for an option the active proposal does not have.
C9_Witness ==
    /\ res = Raised("vote_on_proposal", "ValueError", "Invalid vote option")
    /\ 1 \in DOMAIN proposals

\* ------------------------------------------------- one proposal's lifecycle
\* One caller at a time takes a ballot through submission, status updates,
\* votes and the execution of an approved proposal dictionary.
InitLife ==
    /\ InitExec
    /\ proposalDict.status = "approved"

SubmitTimedBallot ==
    \E end_time \in OptTimes, accepted \in BOOLEAN :
        /\ nextId = 1
        /\ submit_proposal("A", "T", "D", <<"Yes", "No">>, Some(1), end_time, "bitcoin", 1, accepted)

LifeVote ==
    \E vote_option \in {"Yes", "No"}, accepted \in BOOLEAN :
        vote_on_proposal(1, 1, vote_option, "A", Weight["A"], TRUE, accepted)

LifeRecordVoteRead == \E readOk \in BOOLEAN : record_vote_read(1, readOk)

LifeRecordVoteUpload == record_vote_upload(1)

LifeExecuteProposal == \E caller \in Addresses : execute_proposal(1, caller)

LifeExecuteOnBitcoinBroadcast ==
    \E accepted \in BOOLEAN : execute_on_bitcoin_broadcast(1, accepted)

LifeExecuteOnBitcoinUpdate == execute_on_bitcoin_update(1)

LifeExecuteOnRskSend == \E accepted \in BOOLEAN : execute_on_rsk_send(1, accepted)

LifeExecuteOnRskReceipt ==
    \E receipt \in ReceiptOutcomes : execute_on_rsk_receipt(1, receipt)

LifeExecuteOnRskUpdate == execute_on_rsk_update(1)

NextLife ==
    \/ SubmitTimedBallot
    \/ UpdateProposalStatus
    \/ LifeVote
    \/ LifeRecordVoteRead
    \/ LifeRecordVoteUpload
    \/ LifeExecuteProposal
    \/ LifeExecuteOnBitcoinBroadcast
    \/ LifeExecuteOnBitcoinUpdate
    \/ LifeExecuteOnRskSend
    \/ LifeExecuteOnRskReceipt
    \/ LifeExecuteOnRskUpdate

SpecLife == InitLife /\ [][NextLife]_vars

\* ================================================= claims on the lifecycle
\* every field of a proposal but its status
Frame(proposal) == [f \in (DOMAIN proposal) \ {"status"} |-> proposal[f]]

\* C11: no step removes a stored proposal or changes a field of it other than
\* its status, and no step of an execution changes a field of the proposal
\* dictionary other than its status.
C11_OnlyStatusChanges ==
    [][/\ \A id \in DOMAIN proposals :
             /\ id \in DOMAIN proposals'
             /\ Frame(proposals'[id]) = Frame(proposals[id])
       /\ Frame(proposalDict') = Frame(proposalDict)]_vars

\* C11's case: the stored proposal has an end_time, votes on it were recorded,
\* its status was updated and the dictionary was executed.
C11_Witness ==
    /\ 1 \in DOMAIN proposals
    /\ ~IsNone(proposals[1].end_time)
    /\ proposals[1].status = "rejected"
    /\ votes[1] # <<>>
    /\ proposalDict.status = "executed"

\* ------------------------------------------------------ the proposal codec
\* the proposals submit_proposal hands to encode_proposal_data: what
\* create_proposal returns and is_proposal_valid accepts
CreatedProposals ==
    LET made == {create_proposal(id, "A", title, "D", options, Some(start_time), end_time, chain, start_time) :
                    id \in {1, 300}, title \in {"T", LongTitle},
                    options \in {<<"Yes", "No">>, <<"Yes", "No", "Maybe">>},
                    start_time \in Times, end_time \in OptTimes, chain \in Chains} IN
    {m.proposal : m \in {r \in made : r.ok /\ is_proposal_valid(r.proposal)}}

\* records that create_proposal refuses: one option, or an end_time that is
\* not after start_time
RefusedProposals ==
    {[id |-> 1, proposer |-> "A", title |-> "T", description |-> "D",
      options |-> options, start_time |-> start_time, end_time |-> end_time,
      chain |-> "bitcoin", status |-> "active"] :
        options \in {<<"Yes">>, <<"Yes", "No">>}, start_time \in Times,
        end_time \in OptTimes} \ CreatedProposals

\* the payloads of proposals that fit in an output
GoodPayloads ==
    {serialize_proposal(p) : p \in {q \in CreatedProposals :
                                      Len(serialize_proposal(q)) <= MAX_OP_RETURN_SIZE}}

UnknownVersionPayloads == {[b EXCEPT ![1] = v] : b \in GoodPayloads, v \in {0, 2}}

TruncatedPayloads ==
    UNION {{SubSeq(b, 1, k) : k \in 0..(Len(b) - 1)} : b \in GoodPayloads}

RefusedPayloads == {serialize_proposal(p) : p \in RefusedProposals}

\* what an output of the chain may hold besides a well-formed proposal
MalformedPayloads ==
    UnknownVersionPayloads \cup TruncatedPayloads \cup RefusedPayloads

InitCodec == Init

EncodeProposal ==
    /\ encoded = None
    /\ decoded = None
    /\ \E p \in CreatedProposals :
          /\ codecProposal' = Some(p)
          /\ encoded' = Some(encode_proposal_data(p))
    /\ UNCHANGED <<govVars, scanVars, builderVars, allocVars, chainVars, signVars, cryptoVars,
                   walletVars, payload, decoded>>

\* decode_proposal_data on the bytes encode_proposal_data returned
DecodeEncoded ==
    /\ decoded = None
    /\ encoded # None
    /\ encoded[1].ok
    /\ payload' = Some(encoded[1].data)
    /\ decoded' = Some(decode_proposal_data(encoded[1].data))
    /\ UNCHANGED <<govVars, scanVars, builderVars, allocVars, chainVars, signVars, cryptoVars,
                   walletVars, codecProposal, encoded>>

\* decode_proposal_data on the bytes of some output of the chain, in a run
\* that encodes nothing
DecodeOutput ==
    /\ decoded = None
    /\ encoded = None
    /\ \E bytes \in GoodPayloads \cup MalformedPayloads :
          /\ payload' = Some(bytes)
          /\ decoded' = Some(decode_proposal_data(bytes))
    /\ UNCHANGED <<govVars, scanVars, builderVars, allocVars, chainVars, signVars, cryptoVars,
                   walletVars, codecProposal, encoded>>

\* submit_proposal of a member, with a title that fits or one that does not
SubmitEncoded ==
    \E proposer \in {"A", "B"}, title \in {"T", LongTitle}, chain \in Chains,
       accepted \in BOOLEAN :
        submit_proposal(proposer, title, "D", <<"Yes", "No">>, Some(1), None, chain, 1, accepted)

NextCodec ==
    \/ SubmitEncoded
    \/ EncodeProposal
    \/ DecodeEncoded
    \/ DecodeOutput

SpecCodec == InitCodec /\ [][NextCodec]_vars

\* ===================================================== claims on the codec
\* C12: the proposal decoded from the bytes that encode_proposal_data
\* returned for a proposal is that proposal, field by field.
C12_RoundTrip ==
    (/\ encoded # None
     /\ encoded[1].ok
     /\ decoded # None
     /\ payload = Some(encoded[1].data))
        => /\ decoded[1].ok
           /\ decoded[1].proposal = codecProposal[1]

\* C12's case: a proposal with three options, an end_time and a two-byte id
\* was encoded and the bytes were decoded.
C12_Witness ==
    /\ encoded # None
    /\ encoded[1].ok
    /\ decoded # None
    /\ payload = Some(encoded[1].data)
    /\ Len(codecProposal[1].options) = 3
    /\ ~IsNone(codecProposal[1].end_time)
    /\ codecProposal[1].id = 300

\* C13: decoding a payload with an unknown version byte, a truncated payload,
\* a payload with fewer than two options or one whose end_time is not after
\* its start_time gives a DecodeError and no proposal.
C13_MalformedIsRejected ==
    (decoded # None /\ payload[1] \in MalformedPayloads)
        => /\ ~decoded[1].ok
           /\ decoded[1].error = "DecodeError"
           /\ "proposal" \notin DOMAIN decoded[1]

\* C13's case: a payload whose end_time equals its start_time was decoded.
C13_Witness ==
    /\ decoded # None
    /\ payload[1] \in RefusedPayloads
    /\ decoded[1] = DecodeError("end_time not after start_time")

\* the titles whose bytes alone exceed the size of an output
OversizeTitles == {title \in Titles : Len(utf8_encode(title)) > MAX_OP_RETURN_SIZE}

\* C14: encode_proposal_data of a proposal whose record exceeds the size of an
\* output gives PayloadTooLargeError and no bytes, and a submit_proposal call
\* of a member with such a title ends with that error, its proposal neither
\* broadcast nor stored.
C14_OversizeIsRefused ==
    [][/\ (encoded' # None
           /\ Len(serialize_proposal(codecProposal'[1])) > MAX_OP_RETURN_SIZE)
              => /\ ~encoded'[1].ok
                 /\ encoded'[1].error = "PayloadTooLargeError"
                 /\ "data" \notin DOMAIN encoded'[1]
       /\ \/ /\ res'.op = "submit_proposal"
             /\ res'.error = "PayloadTooLargeError"
             /\ UNCHANGED <<proposals, announced>>
          \/ ~\E proposer \in {"A", "B"}, title \in OversizeTitles,
                chain \in Chains, accepted \in BOOLEAN :
                submit_proposal(proposer, title, "D", <<"Yes", "No">>, Some(1), None, chain, 1, accepted)]_vars

\* C14's case: a submit_proposal call ended with PayloadTooLargeError and an
\* oversize proposal was handed to encode_proposal_data.
C14_Witness ==
    /\ res.op = "submit_proposal"
    /\ res.error = "PayloadTooLargeError"
    /\ encoded # None
    /\ ~encoded[1].ok
    /\ proposals = <<>>

\* ------------------------------------------------ fetching proposals, UTXO
MaxOutputs == 3

\* what an OP_RETURN transaction of the chain may carry: two proposals, a
\* payload cut short and one of an unknown version
ScanPayloads ==
    LET first == serialize_proposal(
            [id |-> 1, proposer |-> "A", title |-> "T", description |-> "D",
             options |-> <<"Yes", "No">>, start_time |-> 1, end_time |-> None,
             chain |-> "bitcoin", status |-> "active"])
        second == serialize_proposal(
            [id |-> 2, proposer |-> "B", title |-> "T", description |-> "D",
             options |-> <<"Yes", "No", "Maybe">>, start_time |-> 1,
             end_time |-> Some(2), chain |-> "bitcoin", status |-> "active"]) IN
    {first, second, SubSeq(first, 1, 9), [second EXCEPT ![1] = 2]}

\* bitcoin_client.get_op_return_transactions(), which the client does not
\* hold: the OP_RETURN transactions of the chain in chain order, the txid of
\* a transaction being its position
get_op_return_transactions ==
    [i \in DOMAIN opReturns |-> [txid |-> i, op_return |-> opReturns[i]]]

InitScan ==
    /\ GovIdle
    /\ CodecIdle
    /\ BuilderIdle
    /\ AllocIdle
    /\ ChainIdle
    /\ SignIdle
    /\ CryptoIdle
    /\ WalletIdle
    /\ opReturns \in UNION {[1..n -> ScanPayloads] : n \in 0..MaxOutputs}
    /\ scanIndex = 0
    /\ scanned = <<>>
    /\ scanLog = <<>>
    /\ scanReturn = None

\* the body of the loop of _get_proposals_from_bitcoin for one transaction
scan_step(tx) ==
    LET proposal_data == decode_proposal_data(tx.op_return) IN
    IF proposal_data.ok
    THEN /\ scanned' = IF is_proposal_valid(proposal_data.proposal)
                       THEN Append(scanned, proposal_data.proposal)
                       ELSE scanned
         /\ scanIndex' = scanIndex + 1
         /\ UNCHANGED scanLog
    ELSE /\ scanLog' = Append(scanLog, tx.txid)
         /\ scanIndex' = scanIndex + 1
         /\ UNCHANGED scanned

\* _get_proposals_from_bitcoin(): the call and its list proposals = []
ScanStart ==
    /\ scanIndex = 0
    /\ scanIndex' = 1
    /\ scanned' = <<>>
    /\ UNCHANGED <<govVars, codecVars, builderVars, allocVars, chainVars, signVars, cryptoVars,
                   walletVars, opReturns, scanLog, scanReturn>>

ScanStep ==
    /\ scanIndex \in DOMAIN opReturns
    /\ scan_step(get_op_return_transactions[scanIndex])
    /\ UNCHANGED <<govVars, codecVars, builderVars, allocVars, chainVars, signVars, cryptoVars,
                   walletVars, opReturns, scanReturn>>

\* return proposals
ScanReturn ==
    /\ scanIndex = Len(opReturns) + 1
    /\ scanReturn = None
    /\ scanReturn' = Some([proposals |-> scanned])
    /\ UNCHANGED <<govVars, codecVars, builderVars, allocVars, chainVars, signVars, cryptoVars,
                   walletVars, opReturns, scanIndex, scanned, scanLog>>

NextScan ==
    \/ ScanStart
    \/ ScanStep
    \/ ScanReturn

SpecScan == InitScan /\ [][NextScan]_vars

\* ====================================================== claims on the scan
\* the proposals of the payloads that decode and are valid, in order
RECURSIVE DecodableProposals(_)
DecodableProposals(payloads) ==
    IF payloads = <<>> THEN <<>>
    ELSE LET first == decode_proposal_data(Head(payloads))
             rest == DecodableProposals(Tail(payloads)) IN
         IF first.ok /\ is_proposal_valid(first.proposal)
         THEN <<first.proposal>> \o rest
         ELSE rest

DecodeFailures == {i \in DOMAIN opReturns : ~decode_proposal_data(opReturns[i]).ok}

\* C15: what the scan returns holds exactly the proposals of the outputs that
\* decode and are valid, in scan order, and the number of the outputs that
\* failed to decode.
C15_ScanReturnsProposalsAndCount ==
    scanReturn # None
        => /\ scanReturn[1].proposals = DecodableProposals(opReturns)
           /\ "skipped" \in DOMAIN scanReturn[1]
           /\ scanReturn[1].skipped = Cardinality(DecodeFailures)

\* ------------------------------------------------- wallet/transaction.py
\* create_transaction, sign_transaction and broadcast_transaction as the
\* module defines them last (lines 157-272; the definitions of lines 16-134
\* are replaced by them when the module is loaded).
MaxInputs == 2
MaxTxOutputs == 1

UtxoValues == {300, 1000, 10000}
ScriptTypes == {"p2pkh", "p2wpkh"}
OutputValues == {500, 808}
FeeRates == {1, 2}

\* the lists a caller may pass as inputs: the txid of a UTXO is its place
InputLists ==
    UNION {{[i \in 1..n |-> [txid |-> i, vout |-> 0, value |-> v[i], script |-> k[i]]] :
               v \in [1..n -> UtxoValues], k \in [1..n -> ScriptTypes]} : n \in 1..MaxInputs}

OutputLists ==
    UNION {{[i \in 1..n |-> [address |-> "R", value |-> v[i]]] :
               v \in [1..n -> OutputValues]} : n \in 1..MaxTxOutputs}

RECURSIVE sum_values(_)
sum_values(list) ==
    IF list = <<>> THEN 0 ELSE Head(list).value + sum_values(Tail(list))

\* estimated_tx_size = 148 * len(inputs) + 34 * len(outputs) + 10
estimated_tx_size(inputs, outputs) == 148 * Len(inputs) + 34 * Len(outputs) + 10

\* sign_transaction(tx, private_keys): every input in turn; an input whose
\* scriptPubKey is neither p2pkh nor p2sh raises ValueError
RECURSIVE sign_inputs(_, _, _)
sign_inputs(vin, private_keys, i) ==
    IF i > Len(vin) THEN [ok |-> TRUE, vin |-> vin]
    ELSE IF vin[i].script \notin {"p2pkh", "p2sh"}
    THEN Raise("ValueError", "Unsupported address type for input")
    ELSE sign_inputs([vin EXCEPT ![i].signature = Some(private_keys[i])],
                     private_keys, i + 1)

sign_transaction(tx, private_keys) ==
    LET signed == sign_inputs(tx.vin, private_keys, 1) IN
    IF signed.ok THEN [ok |-> TRUE, tx |-> [tx EXCEPT !.vin = signed.vin]]
    ELSE signed

\* create_transaction(inputs, outputs, private_keys, fee_rate, change_address).
\* The script of an input stands for the scriptPubKey sign_transaction
\* fetches with get_raw_transaction.  generate_new_address() is called
\* without its key: the change goes to a new address all the same.
create_transaction(inputs, outputs, private_keys, fee_rate, change_address) ==
    LET total_input_value == sum_values(inputs)
        total_output_value == sum_values(outputs)
        rate == IF IsNone(fee_rate) THEN estimatedFee ELSE fee_rate[1]
        change == total_input_value - total_output_value
                      - rate * estimated_tx_size(inputs, outputs)
        vin == [i \in DOMAIN inputs |->
                   [txid |-> inputs[i].txid, vout |-> inputs[i].vout,
                    script |-> inputs[i].script, signature |-> None]]
        vout == [i \in DOMAIN outputs |->
                   [value |-> outputs[i].value, address |-> outputs[i].address]]
        change_out == [value |-> change,
                       address |-> IF IsNone(change_address) THEN "new"
                                   ELSE change_address[1]] IN
    sign_transaction([vin |-> vin,
                      vout |-> IF change > 0 THEN Append(vout, change_out) ELSE vout],
                     private_keys)

InitBuild ==
    /\ GovIdle
    /\ CodecIdle
    /\ ScanIdle
    /\ AllocIdle
    /\ ChainIdle
    /\ SignIdle
    /\ CryptoIdle
    /\ WalletIdle
    /\ txInputs \in InputLists
    /\ txOutputs \in OutputLists
    /\ feeRate \in {None} \cup {Some(r) : r \in FeeRates}
    /\ estimatedFee \in IF feeRate = None THEN FeeRates ELSE {1}
    /\ builtTx = None
    /\ txSent = <<>>

CreateTransaction ==
    /\ builtTx = None
    /\ \E change_address \in {None, Some("C")} :
          builtTx' = Some(create_transaction(txInputs, txOutputs,
                              [i \in DOMAIN txInputs |-> i], feeRate, change_address))
    /\ UNCHANGED <<govVars, codecVars, scanVars, allocVars, chainVars, signVars, cryptoVars,
                   walletVars, txInputs, txOutputs, feeRate,
                   estimatedFee, txSent>>

\* broadcast_transaction(tx) of the transaction create_transaction returned
BroadcastTransaction ==
    /\ builtTx # None
    /\ builtTx[1].ok
    /\ txSent = <<>>
    /\ txSent' = <<builtTx[1].tx>>
    /\ UNCHANGED <<govVars, codecVars, scanVars, allocVars, chainVars, signVars, cryptoVars,
                   walletVars, txInputs, txOutputs, feeRate,
                   estimatedFee, builtTx>>

NextBuild ==
    \/ CreateTransaction
    \/ BroadcastTransaction

SpecBuild == InitBuild /\ [][NextBuild]_vars

\* ================================================== claims on the builder
\* the network's minimum output value (the dust limit of a P2PKH output)
MIN_OUTPUT_VALUE == 546

BuiltOk == builtTx # None /\ builtTx[1].ok
BuiltVin == builtTx[1].tx.vin
BuiltVout == builtTx[1].tx.vout
EffectiveRate == IF feeRate = None THEN estimatedFee ELSE feeRate[1]
RequestedTotal == sum_values(txOutputs)
ChangeOutputs == SubSeq(BuiltVout, Len(txOutputs) + 1, Len(BuiltVout))

RECURSIVE SpentTotal(_)
SpentTotal(vin) ==
    IF vin = <<>> THEN 0
    ELSE txInputs[Head(vin).txid].value + SpentTotal(Tail(vin))

\* what the transaction leaves to the miner
PaidFee == SpentTotal(BuiltVin) - sum_values(BuiltVout)

Distance(a, b) == IF a >= b THEN a - b ELSE b - a

\* C16: in a built transaction the inputs equal the requested outputs plus
\* the fee plus the change, and the fee is less than one fee_rate away from
\* fee_rate times the size estimated from the inputs and outputs it holds.
C16_FeeMatchesEstimate ==
    BuiltOk
        => /\ SpentTotal(BuiltVin)
                  = RequestedTotal + PaidFee + sum_values(ChangeOutputs)
           /\ Distance(PaidFee, EffectiveRate * estimated_tx_size(BuiltVin, BuiltVout))
                  < EffectiveRate

\* the inputs do not cover the outputs and the estimated fee
InsufficientFunds ==
    sum_values(txInputs)
        < RequestedTotal + EffectiveRate * estimated_tx_size(txInputs, txOutputs)

\* C17: when the inputs do not cover the outputs and the estimated fee,
\* create_transaction ends with InsufficientFundsError: it returns no
\* transaction and nothing is broadcast.
C17_InsufficientFundsIsRefused ==
    (builtTx # None /\ InsufficientFunds)
        => /\ ~builtTx[1].ok
           /\ builtTx[1].error = "InsufficientFundsError"
           /\ txSent = <<>>

\* the UTXO of greatest value, the first of them in the list
Greatest(list) ==
    CHOOSE i \in DOMAIN list :
        /\ \A j \in DOMAIN list : list[j].value <= list[i].value
        /\ \A j \in 1..(i - 1) : list[j].value < list[i].value

RECURSIVE SortedDescending(_)
SortedDescending(list) ==
    IF list = <<>> THEN <<>>
    ELSE LET i == Greatest(list) IN
         <<list[i]>> \o SortedDescending(SubSeq(list, 1, i - 1)
                                             \o SubSeq(list, i + 1, Len(list)))

\* the first k of the candidates by descending value cover the outputs and
\* the fee of a transaction with k inputs
Covers(k) ==
    sum_values(SubSeq(SortedDescending(txInputs), 1, k))
        >= RequestedTotal + EffectiveRate * (148 * k + 34 * Len(txOutputs) + 10)

\* C18: the inputs of a built transaction are the shortest prefix of the
\* candidates sorted by descending value that covers the outputs and the fee.
C18_GreedyDescendingSelection ==
    (BuiltOk /\ \E k \in 1..Len(txInputs) : Covers(k))
        => LET k == CHOOSE n \in 1..Len(txInputs) :
                        Covers(n) /\ \A m \in 1..(n - 1) : ~Covers(m) IN
           [i \in DOMAIN BuiltVin |-> BuiltVin[i].txid]
               = [i \in 1..k |-> SortedDescending(txInputs)[i].txid]

\* inputs minus outputs minus fee, as create_transaction computes it
Residual ==
    sum_values(txInputs) - RequestedTotal
        - EffectiveRate * estimated_tx_size(txInputs, txOutputs)

\* C19: a built transaction has a change output exactly when the residual is
\* at least the minimum output value, and no change output is below it.
C19_NoDustChange ==
    BuiltOk
        => /\ (ChangeOutputs # <<>>) <=> (Residual >= MIN_OUTPUT_VALUE)
           /\ \A i \in DOMAIN ChangeOutputs :
                  ChangeOutputs[i].value >= MIN_OUTPUT_VALUE

\* ================================================================ allocations
\* src/main_system.py, System.calculate_allocations: the amounts are Python
\* floats and every line of it is float arithmetic.
\*
\* ------------------------------------------------------ float arithmetic
\* Python's float is the IEEE 754 double: a sign, a mantissa of at most
\* MANTISSA_BITS bits and a power of two; every operation returns the double
\* nearest to the exact result, ties going to the even mantissa.  A mantissa
\* does not fit a machine integer of the checker, so it is a big natural:
\* the sequence of its base-LIMB digits, lowest first.
LIMB_BITS == 15
LIMB == 32768
MANTISSA_BITS == 53

RECURSIVE pow2(_)
pow2(k) == IF k = 0 THEN 1 ELSE 2 * pow2(k - 1)

RECURSIVE int_bits(_)
int_bits(n) == IF n = 0 THEN 0 ELSE 1 + int_bits(n \div 2)

digit(a) == IF a = <<>> THEN 0 ELSE Head(a)
rest(a) == IF a = <<>> THEN <<>> ELSE Tail(a)

RECURSIVE big_from_int(_)
big_from_int(n) == IF n = 0 THEN <<>> ELSE <<n % LIMB>> \o big_from_int(n \div LIMB)

RECURSIVE big_trim(_)
big_trim(a) == IF a # <<>> /\ a[Len(a)] = 0 THEN big_trim(SubSeq(a, 1, Len(a) - 1)) ELSE a

RECURSIVE big_add(_, _, _)
big_add(a, b, carry) ==
    IF a = <<>> /\ b = <<>> THEN (IF carry = 0 THEN <<>> ELSE <<carry>>)
    ELSE LET x == digit(a) + digit(b) + carry
         IN  <<x % LIMB>> \o big_add(rest(a), rest(b), x \div LIMB)

\* a - b for a >= b
RECURSIVE big_sub(_, _, _)
big_sub(a, b, borrow) ==
    IF a = <<>> THEN <<>>
    ELSE LET x == digit(a) - digit(b) - borrow
         IN  <<(x + LIMB) % LIMB>> \o big_sub(rest(a), rest(b), IF x < 0 THEN 1 ELSE 0)

RECURSIVE big_mul_small(_, _, _)
big_mul_small(a, d, carry) ==
    IF a = <<>> THEN (IF carry = 0 THEN <<>> ELSE <<carry>>)
    ELSE LET x == Head(a) * d + carry
         IN  <<x % LIMB>> \o big_mul_small(Tail(a), d, x \div LIMB)

RECURSIVE big_mul(_, _)
big_mul(a, b) ==
    IF b = <<>> THEN <<>>
    ELSE big_add(big_mul_small(a, Head(b), 0), <<0>> \o big_mul(a, Tail(b)), 0)

\* quotient and remainder of a by one digit d
RECURSIVE big_divmod_small(_, _)
big_divmod_small(a, d) ==
    IF a = <<>> THEN [q |-> <<>>, r |-> 0]
    ELSE LET high == big_divmod_small(Tail(a), d)
             cur == high.r * LIMB + Head(a)
         IN  [q |-> <<cur \div d>> \o high.q, r |-> cur % d]

RECURSIVE big_less(_, _)
big_less(a, b) ==
    LET x == big_trim(a)
        y == big_trim(b)
    IN  IF Len(x) # Len(y) THEN Len(x) < Len(y)
        ELSE IF x = <<>> THEN FALSE
        ELSE IF x[Len(x)] # y[Len(y)] THEN x[Len(x)] < y[Len(y)]
        ELSE big_less(SubSeq(x, 1, Len(x) - 1), SubSeq(y, 1, Len(y) - 1))

big_shl(a, k) == [i \in 1..(k \div LIMB_BITS) |-> 0] \o big_mul_small(a, pow2(k % LIMB_BITS), 0)

big_shr(a, k) ==
    IF k \div LIMB_BITS >= Len(a) THEN <<>>
    ELSE big_divmod_small(SubSeq(a, k \div LIMB_BITS + 1, Len(a)), pow2(k % LIMB_BITS)).q

bit_length(a) ==
    LET x == big_trim(a)
    IN  IF x = <<>> THEN 0 ELSE LIMB_BITS * (Len(x) - 1) + int_bits(x[Len(x)])

\* a double is (-1)^neg * man * 2^exp, written with an odd mantissa
fl_zero == [neg |-> FALSE, man |-> <<>>, exp |-> 0]

RECURSIVE fl_canonical(_, _, _)
fl_canonical(neg, man, exp) ==
    LET m == big_trim(man)
    IN  IF m = <<>> THEN fl_zero
        ELSE IF m[1] = 0 THEN fl_canonical(neg, Tail(m), exp + LIMB_BITS)
        ELSE IF m[1] % 2 = 0 THEN fl_canonical(neg, big_shr(m, 1), exp + 1)
        ELSE [neg |-> neg, man |-> m, exp |-> exp]

\* round to nearest, ties to even
fl_round(neg, man, exp) ==
    LET k == bit_length(man) - MANTISSA_BITS
        q == big_shr(man, k)
        r == big_trim(big_sub(man, big_shl(q, k), 0))
        half == big_shl(<<1>>, k - 1)
        up == big_less(half, r) \/ (r = half /\ digit(q) % 2 = 1)
    IN  IF k <= 0 THEN fl_canonical(neg, man, exp)
        ELSE fl_canonical(neg, IF up THEN big_add(q, <<1>>, 0) ELSE q, exp + k)

fl_from_int(n) == fl_canonical(n < 0, big_from_int(IF n < 0 THEN 0 - n ELSE n), 0)

fl_neg(x) == IF x.man = <<>> THEN x ELSE [x EXCEPT !.neg = ~x.neg]

fl_add(x, y) ==
    LET e == IF x.exp < y.exp THEN x.exp ELSE y.exp
        a == big_shl(x.man, x.exp - e)
        b == big_shl(y.man, y.exp - e)
    IN  IF x.man = <<>> THEN y
        ELSE IF y.man = <<>> THEN x
        ELSE IF x.neg = y.neg THEN fl_round(x.neg, big_add(a, b, 0), e)
        ELSE IF big_less(a, b) THEN fl_round(y.neg, big_sub(b, a, 0), e)
        ELSE fl_round(x.neg, big_sub(a, b, 0), e)

fl_sub(x, y) == fl_add(x, fl_neg(y))

fl_mul(x, y) == fl_round(x.neg # y.neg, big_mul(x.man, y.man), x.exp + y.exp)

\* x / y for a divisor whose odd mantissa is one digit: the quotient is
\* taken to two bits more than a mantissa holds and a last bit records a
\* remainder, so that rounding sees on which side of a tie the result lies
fl_div(x, y) ==
    LET need == MANTISSA_BITS + 2 + bit_length(y.man) - bit_length(x.man)
        s == IF need > 0 THEN need ELSE 0
        d == big_divmod_small(big_shl(x.man, s), y.man[1])
        man == big_add(big_shl(d.q, 1), IF d.r = 0 THEN <<>> ELSE <<1>>, 0)
    IN  fl_round(x.neg # y.neg, man, x.exp - y.exp - s - 1)

\* --------------------------------------------------- calculate_allocations
\* a decimal literal, or the quotient of two integers: the double nearest to it
decimal(n, d) == fl_div(fl_from_int(n), fl_from_int(d))

\* the amounts handed in as optimal_payment, in hundredths
PaymentCents == {0, 7, 11, 23, 100, 700, 354448}
\* internal_metrics['profit_margin'], in hundredths
ProfitMargins == {0, 25}
\* dao_financial_reports['total_revenue'] and ['capital_requirement']
TotalRevenues == {0, 2000000}
CapitalRequirements == {0, 100000, 700000}

calculate_allocations(payment, metrics, reports) ==
    LET total_revenue == reports.total_revenue
        capital_requirement == reports.capital_requirement
        profit_margin == metrics.profit_margin
        user_allocation == fl_mul(payment, fl_div(profit_margin, total_revenue))
        dao_allocation == fl_mul(payment, fl_div(capital_requirement, total_revenue))
        developer_allocation == fl_mul(payment, decimal(15, 100))
        owner_allocation == fl_mul(payment, decimal(10, 100))
        ebita_allocation ==
            fl_sub(payment,
                   fl_add(fl_add(fl_add(user_allocation, dao_allocation),
                                 developer_allocation),
                          owner_allocation))
    IN  IF total_revenue = fl_zero
        THEN Raise("ZeroDivisionError", "float division by zero")
        ELSE [ok |-> TRUE,
              allocations |-> [users |-> user_allocation,
                               dao |-> dao_allocation,
                               developers |-> developer_allocation,
                               owner |-> owner_allocation,
                               ebita |-> ebita_allocation]]

InitAlloc ==
    /\ GovIdle
    /\ CodecIdle
    /\ ScanIdle
    /\ BuilderIdle
    /\ ChainIdle
    /\ SignIdle
    /\ CryptoIdle
    /\ WalletIdle
    /\ optimal_payment \in {Some(decimal(c, 100)) : c \in PaymentCents}
    /\ internal_metrics \in
          {Some([profit_margin |-> decimal(m, 100)]) : m \in ProfitMargins}
    /\ dao_financial_reports \in
          {Some([total_revenue |-> fl_from_int(r),
                 capital_requirement |-> fl_from_int(c)]) :
             r \in TotalRevenues, c \in CapitalRequirements}
    /\ allocations = None

CalculateAllocations ==
    /\ allocations = None
    /\ allocations' = Some(calculate_allocations(optimal_payment[1], internal_metrics[1],
                                                 dao_financial_reports[1]))
    /\ UNCHANGED <<govVars, codecVars, scanVars, builderVars, chainVars, signVars, cryptoVars,
                   walletVars,
                   optimal_payment,
                   internal_metrics, dao_financial_reports>>

NextAlloc == CalculateAllocations

SpecAlloc == InitAlloc /\ [][NextAlloc]_vars

\* ------------------------------------------------------------ claim C20
\* sum(allocations.values()): Python adds the amounts to 0 in the order of
\* the dictionary
SumOfAmounts ==
    LET a == allocations[1].allocations
    IN  fl_add(fl_add(fl_add(fl_add(a.users, a.dao), a.developers), a.owner), a.ebita)

\* a policy under which the shares are defined: there is revenue to share
ValidPolicy == dao_financial_reports[1].total_revenue # fl_zero

\* C20: for every total >= 0 and every valid policy the amounts of the
\* allocation sum exactly to the total, the residual category (ebita) being
\* the total minus the others, so that no rounding remainder is lost or
\* created.
C20_AllocationsSumToTotal ==
    (allocations # None /\ ValidPolicy) =>
        /\ allocations[1].ok
        /\ SumOfAmounts = optimal_payment[1]

\* ------------------------------------------------------------ claim C21
\* C21: each call of submit_proposal, vote_on_proposal and execute_proposal
\* hands a transaction to a network at most once, also when the network
\* refuses it: no call that is in progress and no call that has ended has
\* broadcast twice.
C21_AtMostOneBroadcastPerCall ==
    /\ res.broadcasts <= 1
    /\ \A t \in Threads : calls[t] # Idle => calls[t].broadcasts <= 1

\* C21's case: an execute call whose only broadcast the network refused has
\* returned, and nothing was sent.
C21_Witness ==
    /\ res.op = "execute_proposal"
    /\ res.error = ""
    /\ res.broadcasts = 1
    /\ proposalDict.chain = "bitcoin"
    /\ proposalDict.status = "approved"
    /\ sent = 0

\* ============================================================ chain clients
\* src/src/network/bitcoin_client.py, rsk_client.py and
\* src/src/dao/treasury_management.py.  rpc is how the node call inside a
\* client function went: it answered ("ok"), it failed ("error") or it did
\* not answer in time ("timeout").
RpcOutcomes == {"ok", "error", "timeout"}
MaxUtxos == 2
UtxoAmounts == {1000, 2500}
WeiBalances == {0, 5}
RawTransactions == {"tx1", "tx2"}

\* what listunspent may hold: the txid of an output is its place
UnspentLists ==
    UNION {{[i \in 1..n |-> [txid |-> i, vout |-> 0, amount |-> v[i]]] :
               v \in [1..n -> UtxoAmounts]} : n \in 0..MaxUtxos}

Value(v) == [ok |-> TRUE, value |-> v]

\* bitcoin_client.get_utxos(address): [] when the node call raised
get_utxos(address, rpc) ==
    IF rpc = "ok"
    THEN [i \in DOMAIN unspent |->
            [txid |-> unspent[i].txid, vout |-> unspent[i].vout,
             value |-> unspent[i].amount]]
    ELSE <<>>

\* rsk_client.get_balance(address): the exception of the node call is not caught
get_balance(address, rpc) ==
    IF rpc = "ok" THEN Value(rskWei) ELSE Raise("Exception", "eth.get_balance")

\* treasury_management.get_treasury_balance()
get_treasury_balance(rskRpc, btcRpc) ==
    LET rsk_balance == get_balance("DAO_RSK_ADDRESS", rskRpc)
        bitcoin_balance == sum_values(get_utxos("DAO_BITCOIN_ADDRESS", btcRpc)) IN
    IF ~rsk_balance.ok THEN rsk_balance
    ELSE Value([rsk |-> [rbtc |-> rsk_balance.value],
                bitcoin |-> [satoshi |-> bitcoin_balance]])

\* bitcoin_client.send_raw_transaction(tx_hex): the txid, or None when the
\* node call raised
send_raw_transaction(tx_hex, rpc) ==
    IF rpc = "ok" THEN Some(tx_hex) ELSE None

InitChain ==
    /\ GovIdle
    /\ CodecIdle
    /\ ScanIdle
    /\ BuilderIdle
    /\ AllocIdle
    /\ SignIdle
    /\ CryptoIdle
    /\ WalletIdle
    /\ unspent \in UnspentLists
    /\ rskWei \in WeiBalances
    /\ mempool = {}
    /\ chainCall = None

ChainFrame ==
    UNCHANGED <<govVars, codecVars, scanVars, builderVars, allocVars, signVars, cryptoVars,
                walletVars>>

GetUtxos ==
    \E rpc \in RpcOutcomes :
        /\ chainCall' = Some([op |-> "get_utxos", rpcs |-> {rpc},
                              result |-> Value(get_utxos("DAO_BITCOIN_ADDRESS", rpc))])
        /\ UNCHANGED <<unspent, rskWei, mempool>>
        /\ ChainFrame

GetTreasuryBalance ==
    \E rskRpc \in RpcOutcomes, btcRpc \in RpcOutcomes :
        /\ chainCall' = Some([op |-> "get_treasury_balance",
                              rpcs |-> IF rskRpc = "ok" THEN {rskRpc, btcRpc} ELSE {rskRpc},
                              result |-> get_treasury_balance(rskRpc, btcRpc)])
        /\ UNCHANGED <<unspent, rskWei, mempool>>
        /\ ChainFrame

\* a transaction the node took in is in the mempool; one whose call timed
\* out may have reached the network all the same (landed)
SendRawTransaction ==
    \E tx_hex \in RawTransactions, rpc \in RpcOutcomes, landed \in BOOLEAN :
        /\ rpc = "timeout" \/ ~landed
        /\ chainCall' = Some([op |-> "send_raw_transaction", rpcs |-> {rpc},
                              result |-> Value(send_raw_transaction(tx_hex, rpc))])
        /\ mempool' = IF rpc = "ok" \/ landed THEN mempool \cup {tx_hex} ELSE mempool
        /\ UNCHANGED <<unspent, rskWei>>
        /\ ChainFrame

NextChain ==
    \/ GetUtxos
    \/ GetTreasuryBalance
    \/ SendRawTransaction

SpecChain == InitChain /\ [][NextChain]_vars

\* ------------------------------------------------------------ claim C22
\* C22: when a node call inside a client operation failed or timed out, the
\* operation signals ChainUnavailableError: it does not return an empty UTXO
\* list, a zero balance or "no txid" in its place.
C22_ChainFailureIsSignalled ==
    (chainCall # None /\ chainCall[1].rpcs # {"ok"}) =>
        /\ ~chainCall[1].result.ok
        /\ chainCall[1].result.error = "ChainUnavailableError"

\* ============================================================== signing
\* src/src/wallet/transaction.py, sign_transaction, one iteration of its loop
\* at a time: each signer signs a transaction of its own.
SignScripts == {"p2pkh", "p2sh", "p2wpkh"}
SignVins ==
    UNION {{[i \in 1..n |-> [txid |-> i, vout |-> 0, script |-> k[i], signature |-> None]] :
               k \in [1..n -> SignScripts]} : n \in 1..MaxInputs}

\* mutant of signing_key: every input is signed with the first key
signing_key_first(private_keys, i) == private_keys[1]

\* private_keys[i].sign(sighash): the key an input is signed with
signing_key(private_keys, i) == private_keys[i]

\* tx.SignatureHash(script, i, SIGHASH_ALL): the hash covers the transaction
\* as it is when the hash is taken, the signatures attached so far included
SignatureHash(vin, i) ==
    [input |-> i, signed |-> {k \in DOMAIN vin : vin[k].signature # None}]

InitSign ==
    /\ GovIdle
    /\ CodecIdle
    /\ ScanIdle
    /\ BuilderIdle
    /\ AllocIdle
    /\ ChainIdle
    /\ SignIdle
    /\ CryptoIdle
    /\ WalletIdle

SignFrame ==
    UNCHANGED <<govVars, codecVars, scanVars, builderVars, allocVars, chainVars, cryptoVars,
                walletVars>>

\* sign_transaction(tx, private_keys) is called: key i belongs to input i
SignStart(s) ==
    /\ signJobs[s].pc = "idle"
    /\ \E vin \in SignVins :
          signJobs' = [signJobs EXCEPT ![s] =
              [NoJob EXCEPT !.pc = "loop", !.vin = vin,
                            !.private_keys = [i \in DOMAIN vin |-> i]]]
    /\ SignFrame

\* for i, txin in enumerate(tx.vin): the script of the input is looked at and
\* the sighash of the input is taken; after the last input the call returns
SignSighash(s) ==
    LET job == signJobs[s]
        i == job.i + 1 IN
    /\ job.pc = "loop"
    /\ signJobs' = [signJobs EXCEPT ![s] =
          IF i > Len(job.vin) THEN [job EXCEPT !.pc = "returned"]
          ELSE IF job.vin[i].script \notin {"p2pkh", "p2sh"}
          THEN [job EXCEPT !.pc = "raised"]
          ELSE [job EXCEPT !.pc = "sign", !.i = i,
                           !.sighash = Some(SignatureHash(job.vin, i))]]
    /\ SignFrame

\* signature = private_keys[i].sign(sighash); txin.scriptSig = ...
SignAttach(s) ==
    LET job == signJobs[s]
        key == signing_key(job.private_keys, job.i) IN
    /\ job.pc = "sign"
    /\ signJobs' = [signJobs EXCEPT ![s] =
          [job EXCEPT !.pc = "loop",
                      !.vin = [job.vin EXCEPT ![job.i].signature = Some(key)],
                      !.sighash = None,
                      !.log = Append(job.log, [input |-> job.i, key |-> key])]]
    /\ SignFrame

NextSign ==
    \/ \E s \in Signers : SignStart(s)
    \/ \E s \in Signers : SignSighash(s)
    \/ \E s \in Signers : SignAttach(s)

SpecSign == InitSign /\ [][NextSign]_vars

\* ------------------------------------------------------------ claim C23
\* C23: within one transaction the inputs are signed in increasing index
\* order, each once and input i with key i, and the sighash of an input is
\* taken only when all inputs before it carry their signature; signers of
\* different transactions take their steps in any order.
C23_SequentialSigning ==
    \A s \in Signers :
        LET job == signJobs[s] IN
        /\ \A k \in DOMAIN job.log : job.log[k] = [input |-> k, key |-> k]
        /\ {k \in DOMAIN job.vin : job.vin[k].signature # None} = DOMAIN job.log
        /\ \A k \in DOMAIN job.log : job.vin[k].signature = Some(job.private_keys[k])
        /\ job.pc = "sign" => job.sighash[1].signed = 1..(job.i - 1)

\* C23's case: one signer is about to sign its second input, the first one
\* signed, while the other signer, on a transaction of its own, still holds
\* the sighash of its first input.
C23_Witness ==
    /\ signJobs["s1"].pc = "sign"
    /\ signJobs["s1"].i = 2
    /\ signJobs["s1"].log = <<[input |-> 1, key |-> 1]>>
    /\ signJobs["s2"].pc = "sign"
    /\ signJobs["s2"].i = 1

\* =========================================================== encryption
\* src/src/security/encryption.py and the two functions of
\* src/src/wallet/key_management.py that encrypt a private key.  The
\* primitives of the cryptography package are modelled by what they
\* guarantee: a derived key is determined by password and salt, and a Fernet
\* token opens under the key that made it and under no other.
Secrets == {"k1", "k2", "k3"}
Passwords == {"p", "q"}
\* what os.urandom(16) may give
Salts == {"salt1", "salt2", "salt3"}

\* PBKDF2HMAC(SHA256, 32, salt, 390000).derive(password.encode())
kdf_derive(password, salt) == [kdf |-> "PBKDF2", password |-> password, salt |-> salt]

urlsafe_b64encode(bytes) == [b64 |-> bytes]

\* Fernet(key) takes a key that is the url-safe base64 text of 32 bytes and
\* raises ValueError for any other; the 32 raw bytes kdf.derive returns are
\* no such text (32 base64 characters stand for 24 bytes)
is_fernet_key(key) == DOMAIN key = {"b64"}

fernet_encrypt(key, data) == [key |-> key, data |-> data]

fernet_decrypt(key, token) ==
    IF token.key = key THEN Value(token.data)
    ELSE Raise("InvalidToken", "")

\* encryption.generate_key(password): salt is what os.urandom gave this call
generate_key(password, salt) == urlsafe_b64encode(kdf_derive(password, salt))

\* encryption.encrypt_data(data, password)
encrypt_data(data, password, salt) ==
    LET key == generate_key(password, salt) IN
    Value(fernet_encrypt(key, data))

\* encryption.decrypt_data(encrypted_data, password)
decrypt_data(encrypted_data, password, salt) ==
    LET key == generate_key(password, salt) IN
    fernet_decrypt(key, encrypted_data)

\* key_management.encrypt_private_key(private_key, password)
encrypt_private_key(private_key, password, salt) ==
    LET key == kdf_derive(password, salt) IN
    IF ~is_fernet_key(key)
    THEN Raise("ValueError", "Fernet key must be 32 url-safe base64-encoded bytes.")
    ELSE Value([salt |-> salt, encrypted_key |-> fernet_encrypt(key, private_key)])

\* key_management.decrypt_private_key(encrypted_key, password): the salt is
\* the first 16 bytes of what it is given; ValueError and binascii.Error are
\* turned into ValueError, InvalidToken is let through
decrypt_private_key(encrypted_key, password) ==
    LET salt == encrypted_key.salt
        key == kdf_derive(password, salt) IN
    IF ~is_fernet_key(key)
    THEN Raise("ValueError", "Decryption failed. Invalid password or corrupted key.")
    ELSE fernet_decrypt(key, encrypted_key.encrypted_key)

\* stored keys as a correct encryption would have written them
KeyBlobs ==
    {[salt |-> salt,
      encrypted_key |-> fernet_encrypt(urlsafe_b64encode(kdf_derive(p, salt)), k)] :
        salt \in Salts, p \in Passwords, k \in Secrets}

InitCrypto ==
    /\ GovIdle
    /\ CodecIdle
    /\ ScanIdle
    /\ BuilderIdle
    /\ AllocIdle
    /\ ChainIdle
    /\ SignIdle
    /\ CryptoIdle
    /\ WalletIdle

CryptoFrame ==
    UNCHANGED <<govVars, codecVars, scanVars, builderVars, allocVars, chainVars, signVars,
                walletVars>>

Sealed(fn, secret, password, salt, result) ==
    [fn |-> fn, secret |-> secret, password |-> password, salt |-> salt, result |-> result]

EncryptData ==
    \E data \in Secrets, password \in Passwords, salt \in Salts :
        /\ sealed = None
        /\ opened = None
        /\ sealed' = Some(Sealed("encrypt_data", data, password, salt,
                                 encrypt_data(data, password, salt)))
        /\ UNCHANGED opened
        /\ CryptoFrame

DecryptData ==
    \E password \in Passwords, salt \in Salts :
        /\ sealed # None
        /\ sealed[1].fn = "encrypt_data"
        /\ opened = None
        /\ opened' = Some([fn |-> "decrypt_data", password |-> password, salt |-> salt,
                           result |-> decrypt_data(sealed[1].result.value, password, salt)])
        /\ UNCHANGED sealed
        /\ CryptoFrame

EncryptPrivateKey ==
    \E private_key \in Secrets, password \in Passwords, salt \in Salts :
        /\ sealed = None
        /\ opened = None
        /\ sealed' = Some(Sealed("encrypt_private_key", private_key, password, salt,
                                 encrypt_private_key(private_key, password, salt)))
        /\ UNCHANGED opened
        /\ CryptoFrame

\* decrypt_private_key of what encrypt_private_key returned or, when nothing
\* was encrypted in this run, of a stored key
DecryptPrivateKey ==
    \E password \in Passwords, stored \in KeyBlobs :
        LET encrypted_key == IF sealed = None THEN stored ELSE sealed[1].result.value IN
        /\ IF sealed = None THEN TRUE
           ELSE sealed[1].fn = "encrypt_private_key" /\ sealed[1].result.ok
        /\ opened = None
        /\ opened' = Some([fn |-> "decrypt_private_key", password |-> password,
                           salt |-> encrypted_key.salt,
                           result |-> decrypt_private_key(encrypted_key, password)])
        /\ UNCHANGED sealed
        /\ CryptoFrame

NextCrypto ==
    \/ EncryptData
    \/ DecryptData
    \/ EncryptPrivateKey
    \/ DecryptPrivateKey

SpecCrypto == InitCrypto /\ [][NextCrypto]_vars

\* ------------------------------------------------------------ claim C24
\* C24: decrypting with password q what was encrypted from secret s with
\* password p returns exactly s when q = p and signals an error when q # p,
\* the salt of the decryption being the salt of the encryption.
C24_DecryptInvertsEncrypt ==
    (sealed # None /\ opened # None) =>
        /\ sealed[1].result.ok
        /\ opened[1].salt = sealed[1].salt
        /\ IF opened[1].password = sealed[1].password
           THEN opened[1].result = Value(sealed[1].secret)
           ELSE ~opened[1].result.ok

\* ============================================================ the wallet
\* Payments from the wallet: a spender fetches the UTXOs (bitcoin_client.
\* get_utxos), hands some of them to create_transaction and the transaction
\* to broadcast_transaction (src/src/wallet/transaction.py).  The selection
\* of the UTXOs is the caller's: any list of fetched UTXOs.
Selections(utxos) ==
    UNION {[1..n -> DOMAIN utxos] : n \in 1..MaxInputs}

\* the outpoints a transaction spends, in the order of its inputs
Outpoints(tx) == [i \in DOMAIN tx.vin |-> <<tx.vin[i].txid, tx.vin[i].vout>>]

\* what the node checks of a transaction it is sent: every input is an
\* unspent output and no output is spent twice
node_accepts(tx) ==
    /\ \A i \in DOMAIN tx.vin :
          \E k \in DOMAIN unspent :
              <<unspent[k].txid, unspent[k].vout>> = Outpoints(tx)[i]
    /\ \A i, j \in DOMAIN tx.vin : i # j => Outpoints(tx)[i] # Outpoints(tx)[j]

InitWallet ==
    /\ GovIdle
    /\ CodecIdle
    /\ ScanIdle
    /\ BuilderIdle
    /\ AllocIdle
    /\ SignIdle
    /\ CryptoIdle
    /\ WalletIdle
    /\ unspent \in UnspentLists
    /\ rskWei = 0
    /\ mempool = {}
    /\ chainCall = None

WalletFrame ==
    UNCHANGED <<govVars, codecVars, scanVars, builderVars, allocVars, signVars, cryptoVars>>

FetchUtxos(w) ==
    \E rpc \in RpcOutcomes :
        /\ payments[w].pc = "idle"
        /\ payments' = [payments EXCEPT ![w] =
              [@ EXCEPT !.pc = "fetched",
                        !.utxos = get_utxos("DAO_BITCOIN_ADDRESS", rpc)]]
        /\ UNCHANGED <<chainVars, handed>>
        /\ WalletFrame

BuildPayment(w) ==
    LET utxos == payments[w].utxos IN
    \E pick \in Selections(utxos) :
        LET inputs == [i \in DOMAIN pick |->
                          [txid |-> utxos[pick[i]].txid, vout |-> utxos[pick[i]].vout,
                           value |-> utxos[pick[i]].value, script |-> "p2pkh"]]
            built == create_transaction(inputs, <<[address |-> "R", value |-> 500]>>,
                                        [i \in DOMAIN pick |-> i], Some(1), None) IN
        /\ payments[w].pc = "fetched"
        /\ payments' = [payments EXCEPT ![w] = [@ EXCEPT !.pc = "built", !.tx = Some(built)]]
        /\ UNCHANGED <<chainVars, handed>>
        /\ WalletFrame

\* broadcast_transaction(tx): the node takes the transaction in or the call
\* raises inside send_raw_transaction, which then returns None
BroadcastPayment(w) ==
    LET tx == payments[w].tx[1].tx
        rpc == IF node_accepts(tx) THEN "ok" ELSE "error"
        spent == {Outpoints(tx)[i] : i \in DOMAIN tx.vin} IN
    /\ payments[w].pc = "built"
    /\ payments[w].tx[1].ok
    /\ handed' = Append(handed, tx)
    /\ payments' = [payments EXCEPT ![w] =
          [@ EXCEPT !.pc = "done", !.txid = send_raw_transaction(Len(handed) + 1, rpc)]]
    /\ IF rpc = "ok"
       THEN /\ unspent' = SelectSeq(unspent, LAMBDA u : <<u.txid, u.vout>> \notin spent)
            /\ mempool' = mempool \cup {tx}
       ELSE UNCHANGED <<unspent, mempool>>
    /\ UNCHANGED <<rskWei, chainCall>>
    /\ WalletFrame

NextWallet ==
    \/ \E w \in Spenders : FetchUtxos(w)
    \/ \E w \in Spenders : BuildPayment(w)
    \/ \E w \in Spenders : BroadcastPayment(w)

SpecWallet == InitWallet /\ [][NextWallet]_vars

\* ------------------------------------------------------------ claim C25
\* C25: however the builds and broadcasts of the wallet interleave, each
\* UTXO (txid, output index) is an input at most once: not twice in one
\* transaction built, and not in two transactions handed to the broadcast.
C25_UtxoSpentOnce ==
    /\ \A w \in Spenders :
          (payments[w].tx # None /\ payments[w].tx[1].ok) =>
              LET spends == Outpoints(payments[w].tx[1].tx) IN
              \A i, j \in DOMAIN spends : i # j => spends[i] # spends[j]
    /\ \A a, b \in DOMAIN handed :
          a # b => \A i \in DOMAIN handed[a].vin, j \in DOMAIN handed[b].vin :
                       Outpoints(handed[a])[i] # Outpoints(handed[b])[j]

\* ------------------------------------------------- the stored vote list
\* the votes of a proposal whose record_vote call is still running: handed to
\* record_vote (pc record_vote) or appended and waiting for the upload
InRecordVote(id) ==
    {calls[t].vote : t \in {u \in Threads : /\ calls[u].pc = "record_vote"
                                            /\ calls[u].id = id}}
    \cup {calls[t].votes[Len(calls[t].votes)] :
            t \in {u \in Threads : calls[u].pc = "upload" /\ calls[u].id = id}}

\* the votes of a proposal whose record_vote call has completed: every vote
\* transaction the network accepted was handed to record_vote
Recorded(id) == Range(voteChain[id]) \ InRecordVote(id)

\* C26: whatever the interleaving of the record_vote calls for a proposal,
\* the stored vote list holds every vote whose record_vote call completed.
C26_NoVoteLost ==
    \A id \in ProposalIds : Recorded(id) \subseteq Range(votes[id])

IsPrefix(s, t) == Len(s) <= Len(t) /\ \A i \in DOMAIN s : s[i] = t[i]

\* C27: the stored vote list of a proposal only grows: every step leaves the
\* votes already stored in place, so a record_vote whose read of the ledger
\* failed does not replace them by a list holding only the new vote.
C27_VotesOnlyGrow ==
    [][\A id \in ProposalIds : IsPrefix(votes[id], votes'[id])]_vars

\* --------------------------------------------------- stored proposals
\* C28: every stored proposal was broadcast successfully: a step that adds a
\* proposal to the ledger is a submit_proposal call whose one broadcast was
\* accepted and which returns the txid, and a submit_proposal call that
\* returns no txid or raises leaves the ledger as it was.
C28_StoredOnlyAfterBroadcast ==
    [][/\ DOMAIN proposals' \subseteq announced'
       /\ DOMAIN proposals' # DOMAIN proposals =>
             /\ res'.op = "submit_proposal" /\ res'.error = ""
             /\ res'.broadcasts = 1
             /\ res'.value # None
             /\ DOMAIN proposals' = DOMAIN proposals \cup {res'.value[1]}
       /\ (res' # res /\ res'.op = "submit_proposal" /\ res'.value = None) =>
             UNCHANGED proposals]_vars

\* a submit_proposal call returned the txid of its broadcast and the
\* proposal is in the ledger
C28_Witness ==
    /\ res.op = "submit_proposal" /\ res.error = ""
    /\ res.value # None
    /\ res.value[1] \in DOMAIN proposals

VoteCallEnded ==
    /\ UNCHANGED calls
    /\ res' # res
    /\ res'.op = "vote_on_proposal"

\* the proposal is in the ledger with status active
IsActive(id) == id \in DOMAIN proposals /\ proposals[id].status = "active"

\* C30: a vote transaction is broadcast and a vote handed to record_vote only
\* for a proposal that is in the ledger with status active when
\* vote_on_proposal is called, only broadcast votes are recorded, and a call
\* made when no proposal is active ends with an error, broadcasts nothing and
\* records nothing.
C30_VotesOnlyOnActive ==
    [][/\ \A id \in ProposalIds :
             voteChain'[id] # voteChain[id] => IsActive(id)
       /\ \A t \in Threads :
             (calls[t] = Idle /\ calls'[t].pc = "record_vote") =>
                 /\ IsActive(calls'[t].id)
                 /\ voteChain'[calls'[t].id] # voteChain[calls'[t].id]
       /\ \A id \in ProposalIds : Range(votes'[id]) \subseteq Range(voteChain'[id])
       /\ (VoteCallEnded /\ \A id \in ProposalIds : ~IsActive(id)) =>
             /\ res'.error = "ValueError"
             /\ res'.broadcasts = 0
             /\ UNCHANGED <<voteChain, votes>>]_vars

\* a vote for the active proposal was broadcast and recorded, and a later
\* call, made after the proposal was approved, was turned away
C30_Witness ==
    /\ 1 \in DOMAIN proposals /\ proposals[1].status = "approved"
    /\ votes[1] # <<>>
    /\ res = Raised("vote_on_proposal", "ValueError", "Invalid or inactive proposal")

====
